---- MODULE Spec2Model ----
(***************************************************************************)
(* Link shortener: the links table, the server actions that create,       *)
(* update and delete Links, and the public redirect route GET /l/{code}.   *)
(*                                                                         *)
(* Two families of server actions exist side by side and are both         *)
(* modelled:                                                               *)
(*   - src/actions/links.ts (createLink, updateLink, deleteLink,          *)
(*     getLinkByShortCode): the caller identity comes from auth(), every   *)
(*     handler issues one statement inside try/catch;                      *)
(*   - src/lib/react-query/actions/link.action.ts (addLink, updateLink,    *)
(*     deleteLink, getLinkByShortCode): the owner is the userId ARGUMENT,  *)
(*     create and update run a SELECT and then a write, errors are thrown. *)
(* The generic table-driven layer (addData/updateData/deleteData) repeats  *)
(* the statements of link.action.ts for the links table.                   *)
(*                                                                         *)
(* One step of the model is one statement against the database (each       *)
(* statement is atomic in the store) together with the handler code up to  *)
(* the next statement or up to the handler's return/throw. Handlers run    *)
(* concurrently: while one two-statement handler of link.action.ts is      *)
(* between its SELECT and its write, every other handler may run. A second *)
(* two-statement handler overlapping the first adds no store transition:   *)
(* its SELECT changes nothing and its write is the INSERT or UPDATE the    *)
(* one-statement handlers of actions/links.ts already issue.               *)
(***************************************************************************)
EXTENDS Integers, Sequences, FiniteSets, TLC

\* ------------------------------------------------------------------ bounds
\* ids handed out by the serial column are capped: at most MaxId inserts.
MaxId == 2

\* ------------------------------------------------------------- input values
\* Strings are sequences of one-character strings.
Letters == {"a", "b", "c", "x", "y", "z", "A"}
Digits == {"7"}
AllowedChars == Letters \cup Digits \cup {"-", "_"}

CodeEmpty == << >>
CodeAbc == <<"a", "b", "c">>
CodeXyz == <<"x", "-", "7">>
CodeBad == <<"a", "!", "c">>
\* short codes a client may put into a create/update form
FormCodes == {CodeAbc, CodeXyz}
\* codes a client may request from the redirect route
AllCodes == FormCodes \cup {CodeEmpty, CodeBad}

\* URLs are sequences of tokens: scheme, ":", "//", host, path.
UrlA == <<"https", ":", "//", "example.com", "/a">>
NotAUrl == <<"not-a-url">>
URLs == {UrlA, NotAUrl}

Users == {"U1", "U2"}
\* auth() / useAuth() without a session: userId is null
NoUser == "null"
Callers == Users \cup {NoUser}

\* new URL(u) succeeds: an absolute URL has a scheme followed by ":" and,
\* for http(s), a non-empty host after "//".
IsValidUrl(u) ==
    /\ Len(u) >= 2
    /\ u[1] \in {"http", "https", "ftp", "mailto"}
    /\ u[2] = ":"
    /\ (u[1] \in {"http", "https", "ftp"} => (Len(u) >= 4 /\ u[3] = "//" /\ u[4] # ""))

\* /^[a-zA-Z0-9-_]+$/
ShortCodeFormat(c) == Len(c) >= 1 /\ \A i \in 1..Len(c) : c[i] \in AllowedChars

\* JavaScript truthiness of a string: the empty string is falsy.
Truthy(s) == Len(s) > 0

\* ---------------------------------------------------------------- state
VARIABLES
    store,      \* the rows of table links
    nextId,     \* next value of the serial sequence behind links.id
    now,        \* the database/server clock
    pending,    \* the link.action.ts handler that is between its SELECT and its write
    resp,       \* what the handler that finished last returned, threw or answered
    infinite,   \* the data of the mounted useGetUserLinksInfinite query
    cookie,     \* the value of the pagination_limit cookie
    limitCall,  \* the last call of pagination.config.ts and its result
    query,      \* the QueryClient's entry for queryKeys.links.userLinks(), and
                \* whether the queries under queryKeys.links.lists() are invalidated
    mutations,  \* the optimistic deletes in flight, by the id they delete
    scroll      \* InfiniteList: the observer's last notification and the
                \* next-page requests in flight

\* the state kept in the browser: the infinite query and the rest
cookieVars == <<cookie, limitCall>>
cacheVars == <<query, mutations>>
browserVars == <<cookieVars, cacheVars, scroll>>
clientVars == <<infinite, browserVars>>

vars == <<store, nextId, now, pending, resp, infinite, cookie, limitCall, query, mutations,
         scroll>>

\* bound of the clock
MaxTime == 1

Fields == {"id", "shortCode", "originalUrl", "userId", "createdAt", "updatedAt"}

\* objects a client can pass as the data/form argument of an update: any
\* subset of the two form fields
UpdateForms ==
    {f \in UNION { [D -> FormCodes \cup URLs] : D \in SUBSET {"shortCode", "originalUrl"} } :
        /\ ("shortCode" \in DOMAIN f => f["shortCode"] \in FormCodes)
        /\ ("originalUrl" \in DOMAIN f => f["originalUrl"] \in URLs)}

\* objects a client can pass to a create
CreateForms == [originalUrl : URLs, shortCode : FormCodes \cup {CodeEmpty}]

Idle == [op |-> "idle"]
\* getCookie(name) when the browser holds no such cookie
NoCookie == <<"null">>
NoCall == [op |-> "none"]
\* getQueryData of a query without data is undefined; data is a Link[]
NoData == [defined |-> FALSE, rows |-> {}]
Data(rows) == [defined |-> TRUE, rows |-> rows]
NoFetch == [phase |-> "idle", rows |-> {}]
\* no query is cached under the key and no component observes it
NoQuery == [active |-> FALSE, data |-> NoData, invalidated |-> FALSE,
            fetch |-> NoFetch, lists |-> FALSE]
NoMutation == [phase |-> "none", previousLinks |-> NoData]
\* the observer has not been notified and no next page is asked for
NoScroll == [intersecting |-> FALSE, requests |-> 0]
\* no infinite query is mounted
Unmounted == [status |-> "unmounted"]
NoResp == [op |-> "none", how |-> "none", success |-> FALSE,
           msg |-> "", status |-> 0, location |-> << >>]

\* outcomes of a handler
Returned(op, ok, m) ==
    [op |-> op, how |-> "return", success |-> ok,
     msg |-> m, status |-> 0, location |-> << >>]
Threw(op, m) ==
    [op |-> op, how |-> "throw", success |-> FALSE,
     msg |-> m, status |-> 0, location |-> << >>]
Http(op, st, loc) ==
    [op |-> op, how |-> "http", success |-> (st = 301),
     msg |-> "", status |-> st, location |-> loc]

\* errors raised by the database driver
PgUniqueViolation == "duplicate key value violates unique constraint \"short_code_idx\""
PgUnavailable == "connection terminated unexpectedly"
PgPkeyViolation == "duplicate key value violates unique constraint \"links_pkey\""

\* ------------------------------------------------------- the links table
\* the table without its unique index
ShortCodeIdx_dropped(s, i, c) == FALSE

\* uniqueIndex("short_code_idx").on(table.shortCode): a row written with
\* short code c under id i collides with any other row holding c.
ShortCodeIdxViolated(s, i, c) == \E l \in s : l.shortCode = c /\ l.id # i

\* serial("id").primaryKey(): a row written with id i collides with any
\* other row holding i.
PrimaryKeyViolated(others, i) == \E l \in others : l.id = i

\* db.select().from(links).where(eq(links.shortCode, c)).limit(1)
SelectByShortCode(s, c) == {l \in s : l.shortCode = c}

\* ... .where(and(eq(links.id, i), eq(links.userId, u)))
SelectByIdAndUser(s, i, u) == {l \in s : l.id = i /\ l.userId = u}

\* a SET that writes both form columns, blanking the one the form leaves out
SetRow_blanksAbsent(l, data, t) ==
    [f \in Fields |-> IF f = "updatedAt" THEN t
                      ELSE IF f \in DOMAIN data THEN data[f]
                      ELSE IF f \in {"shortCode", "originalUrl"} THEN << >>
                      ELSE l[f]]

\* .set({...data, updatedAt: new Date()}) applied to one row
SetRow(l, data, t) ==
    [f \in Fields |-> IF f = "updatedAt" THEN t
                      ELSE IF f \in DOMAIN data THEN data[f] ELSE l[f]]

\* the row INSERT ... RETURNING produces: serial id, both timestamps defaultNow()
NewRow(i, data, u, t) ==
    [id |-> i, shortCode |-> data.shortCode, originalUrl |-> data.originalUrl,
     userId |-> u, createdAt |-> t, updatedAt |-> t]

\* nothing has run in the browser yet
CacheInit ==
    /\ query = NoQuery
    /\ mutations = [i \in 1..MaxId |-> NoMutation]

BrowserInit ==
    /\ cookie = NoCookie
    /\ limitCall = NoCall
    /\ CacheInit
    /\ scroll = NoScroll

Init ==
    /\ store = {}
    /\ nextId = 1
    /\ now = 0
    /\ pending = Idle
    /\ resp = NoResp
    /\ infinite = Unmounted
    /\ BrowserInit

Tick ==
    /\ UNCHANGED clientVars
    /\ now < MaxTime
    /\ now' = now + 1
    /\ UNCHANGED <<store, nextId, pending, resp>>

\* ------------------------------------------------ src/actions/links.ts
\* createLink(data): auth(), presence check, one INSERT inside try/catch.
createLink_server(caller, data, fail) ==
    /\ UNCHANGED <<now, pending>>
    /\ IF caller = NoUser
       THEN /\ resp' = Threw("createLink", "Unauthorized")
            /\ UNCHANGED <<store, nextId>>
       ELSE IF ~Truthy(data.originalUrl) \/ ~Truthy(data.shortCode)
       THEN /\ resp' = Threw("createLink", "Missing required fields")
            /\ UNCHANGED <<store, nextId>>
       ELSE IF fail
       THEN /\ resp' = Returned("createLink", FALSE, "Failed to create link")
            /\ UNCHANGED <<store, nextId>>
       ELSE /\ nextId <= MaxId
            /\ nextId' = nextId + 1
            /\ IF ShortCodeIdxViolated(store, nextId, data.shortCode)
               THEN /\ resp' = Returned("createLink", FALSE, "Failed to create link")
                    /\ UNCHANGED store
               ELSE /\ store' = store \cup {NewRow(nextId, data, caller, now)}
                    /\ resp' = Returned("createLink", TRUE, "")

\* the handler called by any other client than the hooks below
createLink(caller, data, fail) ==
    /\ UNCHANGED clientVars
    /\ createLink_server(caller, data, fail)

\* updateLink(id, data): auth(), one UPDATE ... WHERE id AND userId inside try/catch.
updateLink_server(caller, id, data, fail) ==
    /\ UNCHANGED <<now, pending, nextId>>
    /\ IF caller = NoUser
       THEN /\ resp' = Threw("updateLink", "Unauthorized")
            /\ UNCHANGED store
       ELSE IF fail
       THEN /\ resp' = Returned("updateLink", FALSE, "Failed to update link")
            /\ UNCHANGED store
       ELSE LET rows == SelectByIdAndUser(store, id, caller) IN
            IF rows = {}
            THEN /\ resp' = Returned("updateLink", FALSE,
                                     "Link not found or unauthorized")
                 /\ UNCHANGED store
            ELSE LET l == CHOOSE x \in rows : TRUE
                     n == SetRow(l, data, now) IN
                 IF ShortCodeIdxViolated(store, n.id, n.shortCode)
                 THEN /\ resp' = Returned("updateLink", FALSE,
                                          "Failed to update link")
                      /\ UNCHANGED store
                 ELSE /\ store' = (store \ {l}) \cup {n}
                      /\ resp' = Returned("updateLink", TRUE, "")

\* the handler called by any other client than the hooks below
updateLink(caller, id, data, fail) ==
    /\ UNCHANGED clientVars
    /\ updateLink_server(caller, id, data, fail)

\* deleteLink answering success while the row stays
deleteLink_keepsRow(caller, id, fail) ==
    /\ UNCHANGED clientVars
    /\ UNCHANGED <<now, pending, nextId, store>>
    /\ IF caller = NoUser
       THEN resp' = Threw("deleteLink", "Unauthorized")
       ELSE IF fail
       THEN resp' = Returned("deleteLink", FALSE, "Failed to delete link")
       ELSE IF SelectByIdAndUser(store, id, caller) = {}
       THEN resp' = Returned("deleteLink", FALSE, "Link not found or unauthorized")
       ELSE resp' = Returned("deleteLink", TRUE, "")

\* deleteLink(id): auth(), one DELETE ... WHERE id AND userId inside try/catch.
deleteLink_server(caller, id, fail) ==
    /\ UNCHANGED <<now, pending, nextId>>
    /\ IF caller = NoUser
       THEN /\ resp' = Threw("deleteLink", "Unauthorized")
            /\ UNCHANGED store
       ELSE IF fail
       THEN /\ resp' = Returned("deleteLink", FALSE, "Failed to delete link")
            /\ UNCHANGED store
       ELSE LET rows == SelectByIdAndUser(store, id, caller) IN
            IF rows = {}
            THEN /\ resp' = Returned("deleteLink", FALSE,
                                     "Link not found or unauthorized")
                 /\ UNCHANGED store
            ELSE /\ store' = store \ rows
                 /\ resp' = Returned("deleteLink", TRUE, "")

\* the handler called by any other client than the hooks below
deleteLink(caller, id, fail) ==
    /\ UNCHANGED clientVars
    /\ deleteLink_server(caller, id, fail)

\* getLinkByShortCode without its try/catch: a failed query is thrown on
getLinkByShortCode_noCatch(s, shortCode, fail) ==
    IF fail THEN [threw |-> TRUE, success |-> FALSE, data |-> {}]
    ELSE LET rows == SelectByShortCode(s, shortCode) IN
         IF rows = {} THEN [threw |-> FALSE, success |-> FALSE, data |-> {}]
         ELSE [threw |-> FALSE, success |-> TRUE, data |-> rows]

\* getLinkByShortCode(shortCode): one SELECT inside try/catch; a failed
\* query and an absent row both come back as success: false, nothing is
\* thrown (threw tells the caller's catch block whether it runs).
getLinkByShortCode(s, shortCode, fail) ==
    IF fail THEN [threw |-> FALSE, success |-> FALSE, data |-> {}]
    ELSE LET rows == SelectByShortCode(s, shortCode) IN
         IF rows = {} THEN [threw |-> FALSE, success |-> FALSE, data |-> {}]
         ELSE [threw |-> FALSE, success |-> TRUE, data |-> rows]

\* ------------------------- src/lib/react-query/actions/link.action.ts
\* The handlers take the owner as the argument userId and never call auth().
\* deleteLink carries the parameter caller, the session the request arrives
\* with, to tell who asked; no handler of this file reads it.
\* addLink(form, userId), first statement: SELECT by short code, throw when
\* a row exists.
addLink_select(form, userId, fail) ==
    /\ UNCHANGED clientVars
    /\ UNCHANGED <<store, nextId, now>>
    /\ IF fail
       THEN /\ resp' = Threw("addLink", PgUnavailable)
            /\ UNCHANGED pending
       ELSE IF SelectByShortCode(store, form.shortCode) # {}
       THEN /\ resp' = Threw("addLink", "Short code already exists")
            /\ UNCHANGED pending
       ELSE /\ pending = Idle
            /\ pending' = [op |-> "addLink", userId |-> userId, id |-> 0, form |-> form]
            /\ UNCHANGED resp

\* addLink, second statement: INSERT ... RETURNING, not inside try/catch.
addLink_insert(fail) ==
    /\ UNCHANGED clientVars
    /\ pending # Idle
    /\ pending.op = "addLink"
    /\ pending' = Idle
    /\ UNCHANGED now
    /\ LET p == pending IN
       IF fail
       THEN /\ resp' = Threw("addLink", PgUnavailable)
            /\ UNCHANGED <<store, nextId>>
       ELSE /\ nextId <= MaxId
            /\ nextId' = nextId + 1
            /\ IF ShortCodeIdxViolated(store, nextId, p.form.shortCode)
               THEN /\ resp' = Threw("addLink", PgUniqueViolation)
                    /\ UNCHANGED store
               ELSE /\ store' = store \cup {NewRow(nextId, p.form, p.userId, now)}
                    /\ resp' = Returned("addLink", TRUE,
                                        "Link created successfully")

\* updateLink(id, form, userId), the UPDATE ... WHERE id AND userId RETURNING
\* and the code after it.
LinkAction_update(id, form, userId, fail) ==
    IF fail
    THEN /\ resp' = Threw("LinkAction_updateLink", PgUnavailable)
         /\ UNCHANGED store
    ELSE LET rows == SelectByIdAndUser(store, id, userId) IN
         IF rows = {}
         THEN /\ resp' = Threw("LinkAction_updateLink", "Link not found")
              /\ UNCHANGED store
         ELSE LET l == CHOOSE x \in rows : TRUE
                  n == SetRow(l, form, now) IN
              IF PrimaryKeyViolated(store \ {l}, n.id)
              THEN /\ resp' = Threw("LinkAction_updateLink", PgPkeyViolation)
                   /\ UNCHANGED store
              ELSE IF ShortCodeIdxViolated(store \ {l}, n.id, n.shortCode)
              THEN /\ resp' = Threw("LinkAction_updateLink", PgUniqueViolation)
                   /\ UNCHANGED store
              ELSE /\ store' = (store \ {l}) \cup {n}
                   /\ resp' = Returned("LinkAction_updateLink", TRUE,
                                       "Link updated successfully")

\* updateLink(id, form, userId) up to its first statement. With a truthy
\* form.shortCode that is the SELECT by short code AND userId (throwing when
\* a row with another id is found); without it, it is the UPDATE itself.
LinkAction_updateLink(id, form, userId, fail) ==
    /\ UNCHANGED clientVars
    /\ UNCHANGED <<nextId, now>>
    /\ IF "shortCode" \in DOMAIN form /\ Truthy(form["shortCode"])
       THEN /\ UNCHANGED store
            /\ IF fail
               THEN /\ resp' = Threw("LinkAction_updateLink", PgUnavailable)
                    /\ UNCHANGED pending
               ELSE LET existing == {l \in SelectByShortCode(store, form["shortCode"]) :
                                        l.userId = userId} IN
                    IF existing # {} /\ (CHOOSE x \in existing : TRUE).id # id
                    THEN /\ resp' = Threw("LinkAction_updateLink", "Short code already exists")
                         /\ UNCHANGED pending
                    ELSE /\ pending = Idle
                         /\ pending' = [op |-> "updateLink", userId |-> userId,
                                         id |-> id, form |-> form]
                         /\ UNCHANGED resp
       ELSE /\ UNCHANGED pending
            /\ LinkAction_update(id, form, userId, fail)

\* updateLink after a passed short-code check: the UPDATE statement.
LinkAction_updateLink_update(fail) ==
    /\ UNCHANGED clientVars
    /\ pending # Idle
    /\ pending.op = "updateLink"
    /\ pending' = Idle
    /\ UNCHANGED <<nextId, now>>
    /\ LinkAction_update(pending.id, pending.form, pending.userId, fail)

\* deleteLink of link.action.ts with eq(links.id, id) left out of the where
\* clause: every Link of userId goes
LinkAction_deleteLink_allOfUser(caller, id, userId, fail) ==
    /\ UNCHANGED clientVars
    /\ UNCHANGED <<nextId, now, pending>>
    /\ IF fail
       THEN /\ resp' = Threw("LinkAction_deleteLink", PgUnavailable)
            /\ UNCHANGED store
       ELSE LET rows == {l \in store : l.userId = userId} IN
            IF SelectByIdAndUser(store, id, userId) = {}
            THEN /\ resp' = Threw("LinkAction_deleteLink", "Link not found")
                 /\ UNCHANGED store
            ELSE /\ store' = store \ rows
                 /\ resp' = Returned("LinkAction_deleteLink", TRUE,
                                     "Link deleted successfully")

\* deleteLink(id, userId): one DELETE ... WHERE id AND userId RETURNING.
LinkAction_deleteLink(caller, id, userId, fail) ==
    /\ UNCHANGED clientVars
    /\ UNCHANGED <<nextId, now, pending>>
    /\ IF fail
       THEN /\ resp' = Threw("LinkAction_deleteLink", PgUnavailable)
            /\ UNCHANGED store
       ELSE LET rows == SelectByIdAndUser(store, id, userId) IN
            IF rows = {}
            THEN /\ resp' = Threw("LinkAction_deleteLink", "Link not found")
                 /\ UNCHANGED store
            ELSE /\ store' = store \ rows
                 /\ resp' = Returned("LinkAction_deleteLink", TRUE,
                                     "Link deleted successfully")

\* getLinkByShortCode of link.action.ts with the where clause left out
LinkAction_getLinkByShortCode_noWhere(s, shortCode, fail) ==
    IF fail THEN [threw |-> FALSE, success |-> FALSE, data |-> {}]
    ELSE IF s = {} THEN [threw |-> FALSE, success |-> FALSE, data |-> {}]
         ELSE [threw |-> FALSE, success |-> TRUE, data |-> s]

\* getLinkByShortCode(shortCode) of link.action.ts: SELECT inside try/catch,
\* { success: false } for an absent row and for a failed query alike.
LinkAction_getLinkByShortCode(s, shortCode, fail) ==
    IF fail THEN [threw |-> FALSE, success |-> FALSE, data |-> {}]
    ELSE LET result == SelectByShortCode(s, shortCode) IN
         IF result = {} THEN [threw |-> FALSE, success |-> FALSE, data |-> {}]
         ELSE [threw |-> FALSE, success |-> TRUE, data |-> result]

\* ------------------------------------------------------ GET /l/[code]
\* NextResponse.redirect(url, ...) throws on a URL that does not parse.
RedirectThrows(url) == ~IsValidUrl(url)

\* The route handler: 400 for a falsy code before any lookup; then the
\* lookup, 404 unless it succeeded with a row, otherwise the 301 redirect;
\* the catch block answers 500 for anything thrown in between. lookup is the
\* result the lookup gives when it is called.
Respond(op, code, lookup) ==
    IF ~Truthy(code)
    THEN Http(op, 400, << >>)
    ELSE IF lookup.threw
    THEN Http(op, 500, << >>)
    ELSE IF ~lookup.success \/ lookup.data = {}
    THEN Http(op, 404, << >>)
    ELSE LET link == CHOOSE l \in lookup.data : TRUE IN
         IF RedirectThrows(link.originalUrl)
         THEN Http(op, 500, << >>)
         ELSE Http(op, 301, link.originalUrl)

\* the route removing the Link it has redirected to
GET_consumes(code, fail) ==
    /\ UNCHANGED clientVars
    /\ resp' = Respond("GET", code,
                       LinkAction_getLinkByShortCode(store, code, fail))
    /\ store' = IF resp'.status = 301 THEN store \ SelectByShortCode(store, code)
                ELSE store
    /\ UNCHANGED <<nextId, now, pending>>

\* src/app/l/[code]/route.ts, on link.action.ts's getLinkByShortCode
GET(code, fail) ==
    /\ UNCHANGED clientVars
    /\ resp' = Respond("GET", code,
                       LinkAction_getLinkByShortCode(store, code, fail))
    /\ UNCHANGED <<store, nextId, now, pending>>

\* the route variant on src/actions/links.ts's getLinkByShortCode
GET_actions(code, fail) ==
    /\ UNCHANGED clientVars
    /\ resp' = Respond("GET_actions", code,
                       getLinkByShortCode(store, code, fail))
    /\ UNCHANGED <<store, nextId, now, pending>>

\* ------------------------------------------------------------ listers
\* undefined, for an optional number that is left out (no id, page or limit
\* is negative)
Undefined == -1

\* The characters of the text columns. A URL is kept as its tokens and a
\* user id as one string; ILIKE sees their characters.
Spell(tok) ==
    CASE tok = "https" -> <<"h", "t", "t", "p", "s">>
      [] tok = "//" -> <<"/", "/">>
      [] tok = "example.com" -> <<"e", "x", "a", "m", "p", "l", "e", ".", "c", "o", "m">>
      [] tok = "/a" -> <<"/", "a">>
      [] tok = "not-a-url" -> <<"n", "o", "t", "-", "a", "-", "u", "r", "l">>
      [] tok = "U1" -> <<"U", "1">>
      [] tok = "U2" -> <<"U", "2">>
      [] OTHER -> <<tok>>

RECURSIVE Chars(_)
Chars(toks) == IF toks = << >> THEN << >> ELSE Spell(Head(toks)) \o Chars(Tail(toks))

\* lower(c) for the letters that occur in upper case
Lower(c) ==
    CASE c = "A" -> "a"
      [] c = "B" -> "b"
      [] c = "U" -> "u"
      [] OTHER -> c
LowerAll(str) == [i \in 1..Len(str) |-> Lower(str[i])]

\* str LIKE pat: % stands for any run of characters, _ for any one character,
\* every other character for itself.
RECURSIVE Like(_, _)
Like(str, pat) ==
    IF pat = << >> THEN str = << >>
    ELSE IF Head(pat) = "%"
    THEN Like(str, Tail(pat)) \/ (str # << >> /\ Like(Tail(str), pat))
    ELSE IF Head(pat) = "_"
    THEN str # << >> /\ Like(Tail(str), Tail(pat))
    ELSE str # << >> /\ Head(str) = Head(pat) /\ Like(Tail(str), Tail(pat))

\* ilike(column, `%${search}%`)
ilike(column, search) == Like(LowerAll(column), LowerAll(<<"%">> \o search \o <<"%">>))

\* String.prototype.trim() of a search string leaves something
TrimTruthy(search) == \E i \in 1..Len(search) : search[i] # " "

\* .orderBy(desc(links.createdAt)): the rows in an order of descending
\* createdAt; rows with equal createdAt come in whatever order the database
\* produces them.
OrderByCreatedAtDesc(rows) ==
    {f \in [1..Cardinality(rows) -> rows] :
        /\ \A i, j \in 1..Cardinality(rows) : i # j => f[i] # f[j]
        /\ \A i \in 1..(Cardinality(rows) - 1) : f[i].createdAt >= f[i + 1].createdAt}

\* .limit(n).offset(o) and Array.prototype.slice(0, n)
Slice(rows, o, n) ==
    SubSeq(rows, o + 1, IF o + n < Len(rows) THEN o + n ELSE Len(rows))

\* values a client passes as limit, page, cursor and search
Limits == {Undefined, 1}
Pages == {Undefined, 1}
Cursors == {Undefined} \cup (1..MaxId)
Searches == {<< >>, <<"B">>, <<"_">>, <<" ">>, <<"U">>}

\* x || dflt for a number or undefined
OrElse(x, dflt) == IF x = Undefined \/ x = 0 THEN dflt ELSE x

\* the result of a lister, and its failure
Listed(op, userId, params, items, nextCursor, more, total) ==
    [op |-> op, how |-> "return", success |-> TRUE, msg |-> "",
     userId |-> userId, params |-> params, items |-> items,
     nextCursor |-> nextCursor, more |-> more, total |-> total]
NotListed(op, how, m, userId, params) ==
    [op |-> op, how |-> how, success |-> FALSE, msg |-> m,
     userId |-> userId, params |-> params, items |-> << >>,
     nextCursor |-> Undefined, more |-> FALSE, total |-> 0]

\* ---- src/actions/links.ts
\* getUserLinks(): auth(), one SELECT of the caller's rows inside try/catch.
getUserLinks(caller, fail) ==
    /\ UNCHANGED <<store, nextId, now, pending>>
    /\ UNCHANGED clientVars
    /\ LET params == [search |-> << >>] IN
       IF caller = NoUser
       THEN resp' = NotListed("getUserLinks", "throw", "Unauthorized", caller, params)
       ELSE IF fail
       THEN resp' = NotListed("getUserLinks", "return", "Failed to fetch links",
                              caller, params)
       ELSE \E userLinks \in OrderByCreatedAtDesc({l \in store : l.userId = caller}) :
               resp' = Listed("getUserLinks", caller, params, userLinks,
                              Undefined, FALSE, Len(userLinks))

\* the conditions getUserLinksPaginated builds for its WHERE clause
PaginatedConditions_le(l, userId, params) ==
    /\ l.userId = userId
    /\ (Truthy(params.search) /\ TrimTruthy(params.search))
          => (ilike(Chars(l.originalUrl), params.search) \/ ilike(l.shortCode, params.search))
    /\ (params.cursor # Undefined /\ params.cursor # 0) => l.id <= params.cursor

PaginatedConditions(l, userId, params) ==
    /\ l.userId = userId
    /\ (Truthy(params.search) /\ TrimTruthy(params.search))
          => (ilike(Chars(l.originalUrl), params.search) \/ ilike(l.shortCode, params.search))
    /\ (params.cursor # Undefined /\ params.cursor # 0) => l.id < params.cursor

\* the outcomes of getUserLinksPaginated(params): auth(), the SELECT with
\* limit + 1 rows inside try/catch, then items / nextCursor / hasNextPage.
PaginatedOutcomes(s, caller, params, fail) ==
    LET limit == OrElse(params.limit, 10) IN
    IF caller = NoUser
    THEN {NotListed("getUserLinksPaginated", "throw", "Unauthorized", caller, params)}
    ELSE IF fail
    THEN {NotListed("getUserLinksPaginated", "return", "Failed to fetch links",
                    caller, params)}
    ELSE {LET userLinks == Slice(ordered, 0, limit + 1)
              hasNextPage == Len(userLinks) > limit
              items == IF hasNextPage THEN Slice(userLinks, 0, limit) ELSE userLinks
              nextCursor == IF hasNextPage THEN items[Len(items)].id ELSE Undefined IN
          Listed("getUserLinksPaginated", caller, params, items,
                 nextCursor, hasNextPage, Len(items)) :
            ordered \in OrderByCreatedAtDesc(
                           {l \in s : PaginatedConditions(l, caller, params)})}

getUserLinksPaginated(caller, params, fail) ==
    /\ UNCHANGED <<store, nextId, now, pending>>
    /\ UNCHANGED clientVars
    /\ resp' \in PaginatedOutcomes(store, caller, params, fail)

\* ---- src/lib/react-query/actions/link.action.ts and the table-driven layer
\* the WHERE clause of getLinks: the rows of the userId argument, and with a
\* truthy search those whose shortCode or originalUrl is ILIKE the pattern
LinksConditions(l, userId, search) ==
    /\ l.userId = userId
    /\ Truthy(search) => (ilike(l.shortCode, search) \/ ilike(Chars(l.originalUrl), search))

\* the WHERE clause of getData(links, ...): the search runs over every column
\* of dataType "string", which for links are short_code, original_url and
\* user_id
DataConditions(l, userId, search) ==
    /\ l.userId = userId
    /\ Truthy(search) => \/ ilike(l.shortCode, search)
                         \/ ilike(Chars(l.originalUrl), search)
                         \/ ilike(Chars(<<l.userId>>), search)

\* the page both offset listers return: data, total, hasMore
OffsetPage(op, userId, queries, matching, dfltLimit) ==
    LET page == OrElse(queries.page, 0)
        limit == OrElse(queries.limit, dfltLimit)
        offset == page * limit IN
    {LET data == Slice(ordered, offset, limit) IN
     Listed(op, userId, queries, data, Undefined,
            offset + Len(data) < Cardinality(matching), Cardinality(matching)) :
        ordered \in OrderByCreatedAtDesc(matching)}

\* getLinks(userId, queries): no auth(); SELECT page and SELECT count(*),
\* a failed query is thrown on. caller is the session the request arrives
\* with, which the handler does not read.
getLinks(caller, userId, queries, fail) ==
    /\ UNCHANGED <<store, nextId, now, pending>>
    /\ UNCHANGED clientVars
    /\ IF fail
       THEN resp' = NotListed("getLinks", "throw", PgUnavailable, userId, queries)
       ELSE resp' \in OffsetPage("getLinks", userId, queries,
                                 {l \in store : LinksConditions(l, userId, queries.search)},
                                 100)

\* getData(links, userId, queries): the same statements, default limit 10,
\* not inside try/catch.
getData(caller, userId, queries, fail) ==
    /\ UNCHANGED <<store, nextId, now, pending>>
    /\ UNCHANGED clientVars
    /\ IF fail
       THEN resp' = NotListed("getData", "throw", PgUnavailable, userId, queries)
       ELSE resp' \in OffsetPage("getData", userId, queries,
                                 {l \in store : DataConditions(l, userId, queries.search)},
                                 10)

\* ---- the two statements of an offset lister, one at a time
\* Promise.all([SELECT page, SELECT count(*)]) sends two statements to the
\* pool; each reads the table as it is when it runs, in either order, and
\* other requests may commit in between.
OffsetMatching(op, s, userId, search) ==
    IF op = "getLinks"
    THEN {l \in s : LinksConditions(l, userId, search)}
    ELSE {l \in s : DataConditions(l, userId, search)}
OffsetDefaultLimit(op) == IF op = "getLinks" THEN 100 ELSE 10
OffsetOf(op, queries) ==
    OrElse(queries.page, 0) * OrElse(queries.limit, OffsetDefaultLimit(op))
OffsetData(op, matching, queries) ==
    {Slice(ordered, OffsetOf(op, queries), OrElse(queries.limit, OffsetDefaultLimit(op))) :
        ordered \in OrderByCreatedAtDesc(matching)}

\* the statement that runs first. pending holds what the handler has so far;
\* snapshot is the number of rows the data query matched when it ran, which
\* the handler does not keep.
Offset_first(op, userId, queries, first, fail) ==
    /\ pending = Idle
    /\ UNCHANGED <<store, nextId, now>>
    /\ UNCHANGED clientVars
    /\ IF fail
       THEN /\ resp' = NotListed(op, "throw", PgUnavailable, userId, queries)
            /\ UNCHANGED pending
       ELSE /\ UNCHANGED resp
            /\ LET matching == OffsetMatching(op, store, userId, queries.search) IN
               IF first = "data"
               THEN \E data \in OffsetData(op, matching, queries) :
                       pending' = [op |-> op, userId |-> userId, queries |-> queries,
                                   first |-> first, data |-> data, total |-> 0,
                                   snapshot |-> Cardinality(matching)]
               ELSE pending' = [op |-> op, userId |-> userId, queries |-> queries,
                                first |-> first, data |-> << >>,
                                total |-> Cardinality(matching), snapshot |-> 0]

\* the other statement, then total and hasMore
Offset_second(op, fail) ==
    /\ pending.op = op
    /\ pending' = Idle
    /\ UNCHANGED <<store, nextId, now>>
    /\ UNCHANGED clientVars
    /\ IF fail
       THEN resp' = NotListed(op, "throw", PgUnavailable, pending.userId, pending.queries)
       ELSE LET matching == OffsetMatching(op, store, pending.userId, pending.queries.search)
                offset == OffsetOf(op, pending.queries) IN
            IF pending.first = "data"
            THEN resp' = Listed(op, pending.userId, pending.queries, pending.data, Undefined,
                                offset + Len(pending.data) < Cardinality(matching),
                                Cardinality(matching))
            ELSE \E data \in OffsetData(op, matching, pending.queries) :
                    resp' = Listed(op, pending.userId, pending.queries, data, Undefined,
                                   offset + Len(data) < pending.total, pending.total)

getLinks_first(userId, queries, first, fail) ==
    Offset_first("getLinks", userId, queries, first, fail)
getLinks_second(fail) == Offset_second("getLinks", fail)
getData_first(userId, queries, first, fail) ==
    Offset_first("getData", userId, queries, first, fail)
getData_second(fail) == Offset_second("getData", fail)

\* ---- src/queries/links.ts
\* useGetUserLinksInfinite(limit, search) is mounted for the signed-in user:
\* no page is loaded yet.
useGetUserLinksInfinite(user, limit, search) ==
    /\ infinite = Unmounted
    /\ infinite' = [status |-> "pending", user |-> user, limit |-> OrElse(limit, 10),
                    search |-> search, pages |-> << >>]
    /\ UNCHANGED <<store, nextId, now, pending, resp>>
    /\ UNCHANGED browserVars

\* getNextPageParam(lastPage)
getNextPageParam(pages) ==
    IF pages = << >> THEN Undefined ELSE pages[Len(pages)].nextCursor

\* the query has a page left to fetch: the first one, or the one after a
\* page whose nextCursor is defined
HasNextPage(q) ==
    /\ q # Unmounted
    /\ q.status # "error"
    /\ (q.pages = << >> \/ getNextPageParam(q.pages) # Undefined)

\* select: data.pages.flatMap((page) => page.items)
RECURSIVE FlatItems(_)
FlatItems(pages) ==
    IF pages = << >> THEN << >> ELSE Head(pages).items \o FlatItems(Tail(pages))

\* queryFn({pageParam}): one getUserLinksPaginated call; a result without
\* success is thrown and puts the query into its error state, a page is
\* appended to data.pages.
useGetUserLinksInfinite_fetchPage(fail) ==
    /\ HasNextPage(infinite)
    /\ UNCHANGED <<store, nextId, now, pending>>
    /\ \E result \in PaginatedOutcomes(store, infinite.user,
                                       [cursor |-> getNextPageParam(infinite.pages),
                                        limit |-> infinite.limit,
                                        search |-> infinite.search], fail) :
          /\ resp' = result
          /\ IF result.success
             THEN infinite' = [infinite EXCEPT
                      !.status = "success",
                      !.pages = Append(@, [items |-> result.items,
                                           nextCursor |-> result.nextCursor,
                                           hasNextPage |-> result.more])]
             ELSE infinite' = [infinite EXCEPT !.status = "error"]

\* the query fetching its pages one after another, the list not involved
useGetUserLinksInfinite_queryFn(fail) ==
    /\ useGetUserLinksInfinite_fetchPage(fail)
    /\ UNCHANGED browserVars

\* ---- src/components/shared/infinite-list.tsx, as DashboardContent uses it
\* the props DashboardContent passes on from useGetUserLinksInfinite
isLoading(q) == q # Unmounted /\ q.status = "pending"
isFetchingNextPage == scroll.requests > 0
hasNextPage(q) == isLoading(q) = FALSE /\ HasNextPage(q) /\ q.pages # << >>
\* the div the observer watches is rendered: not loading, no error, items
SentinelRendered(q) ==
    q # Unmounted /\ q.status = "success" /\ FlatItems(q.pages) # << >>

\* the first page arrives (the query fetches it on mount)
InfiniteList_loaded(fail) ==
    /\ isLoading(infinite)
    /\ useGetUserLinksInfinite_fetchPage(fail)
    /\ UNCHANGED browserVars

\* the observer's callback without the isFetchingNextPage test
InfiniteList_observer_whileFetching(isIntersecting) ==
    /\ SentinelRendered(infinite)
    /\ scroll.requests <= MaxId
    /\ scroll' = [intersecting |-> isIntersecting,
                  requests |-> IF isIntersecting /\ hasNextPage(infinite)
                                  /\ ~isLoading(infinite)
                               THEN scroll.requests + 1 ELSE scroll.requests]
    /\ UNCHANGED <<store, nextId, now, pending, resp, infinite>>
    /\ UNCHANGED <<cookieVars, cacheVars>>

\* the IntersectionObserver notifies the callback of the effect, which was
\* set up again by the render that the last change of props caused:
\* fetchNextPage() sends a request for the next page
InfiniteList_observer(isIntersecting) ==
    /\ SentinelRendered(infinite)
    /\ scroll.requests <= MaxId
    /\ scroll' = [intersecting |-> isIntersecting,
                  requests |-> IF isIntersecting /\ hasNextPage(infinite)
                                  /\ ~isFetchingNextPage /\ ~isLoading(infinite)
                               THEN scroll.requests + 1 ELSE scroll.requests]
    /\ UNCHANGED <<store, nextId, now, pending, resp, infinite>>
    /\ UNCHANGED <<cookieVars, cacheVars>>

\* the next page, or the error, arrives
fetchNextPage_settled(fail) ==
    /\ scroll.requests > 0
    /\ useGetUserLinksInfinite_fetchPage(fail)
    /\ scroll' = [scroll EXCEPT !.requests = @ - 1]
    /\ UNCHANGED <<cookieVars, cacheVars>>

\* ------------------------------- src/components/forms/link-form.tsx
\* linkSchema of src/hooks/useAppQuery.tsx, the two form fields:
\* originalUrl min(1) and url(), shortCode min(3), max(50) and the pattern.
createLinkSchema(data) ==
    /\ Len(data.originalUrl) >= 1
    /\ IsValidUrl(data.originalUrl)
    /\ Len(data.shortCode) >= 3
    /\ Len(data.shortCode) <= 50
    /\ ShortCodeFormat(data.shortCode)

\* updateLinkSchema: the same checks on the fields that are present. The
\* dialog is opened on a Link, so both fields arrive filled in.
updateLinkSchema(data) ==
    /\ DOMAIN data = {"shortCode", "originalUrl"}
    /\ createLinkSchema([originalUrl |-> data["originalUrl"],
                         shortCode |-> data["shortCode"]])

\* LinkForm's onSubmit, which react-hook-form calls only with data that
\* passed the resolver's schema. initialData is the id of the Link the dialog
\* was opened on, NoInitialData for a create dialog; the form calls the
\* handlers of src/actions/links.ts.
NoInitialData == 0
LinkForm_onSubmit(caller, initialData, data, fail) ==
    IF initialData # NoInitialData
    THEN /\ updateLinkSchema(data)
         /\ updateLink(caller, initialData, data, fail)
    ELSE /\ DOMAIN data = {"shortCode", "originalUrl"}
         /\ createLinkSchema([originalUrl |-> data["originalUrl"],
                              shortCode |-> data["shortCode"]])
         /\ createLink(caller, [originalUrl |-> data["originalUrl"],
                                shortCode |-> data["shortCode"]], fail)

\* ---- src/queries/links.ts: the user-links query and the mutation hooks
\* the user whose session the browser holds
SignedIn == "U1"

\* a query is in the cache once a component observes it or data was set
QueryExists(q) == q.active \/ q.data.defined

\* invalidateQueries({queryKey: queryKeys.links.userLinks()}): the query, if
\* cached, is marked invalidated; an observed query is fetched again, and a
\* fetch in flight is cancelled for the new one.
InvalidateUserLinks(q) ==
    IF QueryExists(q)
    THEN [q EXCEPT !.invalidated = TRUE,
                   !.fetch = IF q.active THEN [phase |-> "sent", rows |-> {}] ELSE @]
    ELSE q
\* invalidateQueries({queryKey: queryKeys.links.lists()})
InvalidateLists(q) == [q EXCEPT !.lists = TRUE]

\* useGetUserLinks() is mounted: the query is observed and fetched
useGetUserLinks ==
    /\ ~query.active
    /\ query' = [query EXCEPT !.active = TRUE, !.fetch = [phase |-> "sent", rows |-> {}]]
    /\ UNCHANGED <<store, nextId, now, pending, resp, infinite, mutations>>
    /\ UNCHANGED <<cookieVars, scroll>>

\* the request of queryFn reaches the server: getUserLinks() reads the rows
\* of the session's user, or fails
useGetUserLinks_queryFn(fail) ==
    /\ query.fetch.phase = "sent"
    /\ query' = [query EXCEPT !.fetch =
                    IF fail THEN [phase |-> "failed", rows |-> {}]
                    ELSE [phase |-> "answered",
                          rows |-> {l \in store : l.userId = SignedIn}]]
    /\ UNCHANGED <<store, nextId, now, pending, resp, infinite, mutations>>
    /\ UNCHANGED <<cookieVars, scroll>>

\* the answer arrives: a result becomes the data and clears the invalidation,
\* an error leaves the data as it is
useGetUserLinks_settled ==
    /\ query.fetch.phase \in {"answered", "failed"}
    /\ query' = IF query.fetch.phase = "answered"
                THEN [query EXCEPT !.data = Data(query.fetch.rows),
                                   !.invalidated = FALSE, !.fetch = NoFetch]
                ELSE [query EXCEPT !.fetch = NoFetch]
    /\ UNCHANGED <<store, nextId, now, pending, resp, infinite, mutations>>
    /\ UNCHANGED <<cookieVars, scroll>>

\* the infinite list of the dashboard has fetched its pages again
useGetUserLinksInfinite_refetched ==
    /\ query.lists
    /\ query' = [query EXCEPT !.lists = FALSE]
    /\ UNCHANGED <<store, nextId, now, pending, resp, infinite, mutations>>
    /\ UNCHANGED <<cookieVars, scroll>>

\* useCreateLink().mutate(data): createLink(data), on success both
\* invalidations
useCreateLink(data, fail) ==
    /\ createLink_server(SignedIn, data, fail)
    /\ query' = IF resp'.success THEN InvalidateLists(InvalidateUserLinks(query)) ELSE query
    /\ UNCHANGED <<infinite, mutations>>
    /\ UNCHANGED <<cookieVars, scroll>>

\* useUpdateLink().mutate({id, data})
useUpdateLink(id, data, fail) ==
    /\ updateLink_server(SignedIn, id, data, fail)
    /\ query' = IF resp'.success THEN InvalidateLists(InvalidateUserLinks(query)) ELSE query
    /\ UNCHANGED <<infinite, mutations>>
    /\ UNCHANGED <<cookieVars, scroll>>

\* useDeleteLink().mutate(id)
useDeleteLink(id, fail) ==
    /\ deleteLink_server(SignedIn, id, fail)
    /\ query' = IF resp'.success THEN InvalidateLists(InvalidateUserLinks(query)) ELSE query
    /\ UNCHANGED <<infinite, mutations>>
    /\ UNCHANGED <<cookieVars, scroll>>

\* useDeleteLinkOptimistic().mutate(id), onMutate: cancelQueries drops a fetch
\* in flight, previousLinks is the data (undefined without data), and
\* setQueryData stores the list without the link, [] without data, which
\* also clears the invalidation.
useDeleteLinkOptimistic_onMutate(deletedId) ==
    /\ mutations[deletedId].phase = "none"
    /\ mutations' = [mutations EXCEPT ![deletedId] =
                        [phase |-> "sent", previousLinks |-> query.data]]
    /\ query' = [query EXCEPT
                    !.fetch = NoFetch,
                    !.data = Data({l \in query.data.rows : l.id # deletedId}),
                    !.invalidated = FALSE]
    /\ UNCHANGED <<store, nextId, now, pending, resp, infinite>>
    /\ UNCHANGED <<cookieVars, scroll>>

\* mutationFn: deleteLink(id) runs on the server
useDeleteLinkOptimistic_mutationFn(deletedId, fail) ==
    /\ mutations[deletedId].phase = "sent"
    /\ deleteLink_server(SignedIn, deletedId, fail)
    /\ mutations' = [mutations EXCEPT ![deletedId].phase =
                        IF resp'.success THEN "success" ELSE "error"]
    /\ UNCHANGED <<infinite, query>>
    /\ UNCHANGED <<cookieVars, scroll>>

\* onSettled without its invalidateQueries
useDeleteLinkOptimistic_onSettled_noInvalidate(deletedId) ==
    /\ mutations[deletedId].phase \in {"success", "error"}
    /\ LET context == mutations[deletedId] IN
       query' = IF context.phase = "error" /\ context.previousLinks.defined
                THEN [query EXCEPT !.data = context.previousLinks, !.invalidated = FALSE]
                ELSE query
    /\ mutations' = [mutations EXCEPT ![deletedId] = NoMutation]
    /\ UNCHANGED <<store, nextId, now, pending, resp, infinite>>
    /\ UNCHANGED <<cookieVars, scroll>>

\* [] is truthy, undefined is not
TruthyLinks(d) == d.defined

\* the result arrives: onSuccess, or onError which puts previousLinks back if
\* it is truthy, and then onSettled which invalidates the user-links query
useDeleteLinkOptimistic_onSettled(deletedId) ==
    /\ mutations[deletedId].phase \in {"success", "error"}
    /\ LET context == mutations[deletedId]
           restored == IF context.phase = "error" /\ TruthyLinks(context.previousLinks)
                       THEN [query EXCEPT !.data = context.previousLinks,
                                          !.invalidated = FALSE]
                       ELSE query IN
       query' = InvalidateUserLinks(restored)
    /\ mutations' = [mutations EXCEPT ![deletedId] = NoMutation]
    /\ UNCHANGED <<store, nextId, now, pending, resp, infinite>>
    /\ UNCHANGED <<cookieVars, scroll>>

\* ---- src/lib/config/pagination.config.ts
\* Strings are sequences of characters.
VALID_LIMITS == {50, 100, 150, 200}
DEFAULT_LIMIT == 100

DecimalDigits == <<"0", "1", "2", "3", "4", "5", "6", "7", "8", "9">>
IsDigit(c) == \E d \in 1..10 : DecimalDigits[d] = c
DigitValue(c) == (CHOOSE d \in 1..10 : DecimalDigits[d] = c) - 1

\* parseInt(s, 10): leading white space is skipped, then an optional sign,
\* then the longest run of decimal digits; whatever follows is ignored, and
\* without a digit the result is NaN.
NaN == -1000000
RECURSIVE SkipWhiteSpace(_)
SkipWhiteSpace(str) ==
    IF str # << >> /\ Head(str) = " " THEN SkipWhiteSpace(Tail(str)) ELSE str
RECURSIVE LeadingDigits(_, _)
LeadingDigits(str, acc) ==
    IF str # << >> /\ IsDigit(Head(str))
    THEN LeadingDigits(Tail(str), 10 * acc + DigitValue(Head(str)))
    ELSE acc
parseInt(str) ==
    LET t == SkipWhiteSpace(str)
        signed == t # << >> /\ Head(t) \in {"-", "+"}
        u == IF signed THEN Tail(t) ELSE t IN
    IF u = << >> \/ ~IsDigit(Head(u))
    THEN NaN
    ELSE IF signed /\ Head(t) = "-" THEN 0 - LeadingDigits(u, 0) ELSE LeadingDigits(u, 0)

\* limit.toString() of an integer
RECURSIVE toString(_)
toString(n) ==
    IF n < 0 THEN <<"-">> \o toString(0 - n)
    ELSE IF n < 10 THEN <<DecimalDigits[n + 1]>>
    ELSE toString(n \div 10) \o <<DecimalDigits[(n % 10) + 1]>>

\* cookie.config.ts: getCookie(name) gives the stored value of the cookie or
\* null, setCookie(name, value, days) stores value
getCookie(jar) == jar
setCookie(jar, value) == value

getLimitFromCookie_unchecked(jar) ==
    LET cookieValue == getCookie(jar) IN
    IF cookieValue = NoCookie \/ cookieValue = << >>
    THEN DEFAULT_LIMIT
    ELSE parseInt(cookieValue)

getLimitFromCookie(jar) ==
    LET cookieValue == getCookie(jar) IN
    IF cookieValue = NoCookie \/ cookieValue = << >>
    THEN DEFAULT_LIMIT
    ELSE LET parsedLimit == parseInt(cookieValue) IN
         IF parsedLimit \in VALID_LIMITS THEN parsedLimit ELSE DEFAULT_LIMIT

\* a call of getLimitFromCookie()
getLimitFromCookie_call ==
    /\ limitCall' = [op |-> "getLimitFromCookie", limit |-> getLimitFromCookie(cookie)]
    /\ UNCHANGED <<store, nextId, now, pending, resp, infinite, cookie>>
    /\ UNCHANGED <<cacheVars, scroll>>

\* setLimitCookie(limit)
setLimitCookie(limit) ==
    /\ cookie' = IF limit \in VALID_LIMITS THEN setCookie(cookie, toString(limit)) ELSE cookie
    /\ limitCall' = [op |-> "setLimitCookie", limit |-> limit]
    /\ UNCHANGED <<store, nextId, now, pending, resp, infinite>>
    /\ UNCHANGED <<cacheVars, scroll>>

\* the browser, its user or another script writes the cookie, or it expires
document_cookie(value) ==
    /\ cookie' = value
    /\ limitCall' = [op |-> "document.cookie"]
    /\ UNCHANGED <<store, nextId, now, pending, resp, infinite>>
    /\ UNCHANGED <<cacheVars, scroll>>

Ids == 1..MaxId

\* A request that is refused before its statement (no session), or whose
\* statement fails, leaves the same state whatever its other arguments are;
\* so does an UPDATE of actions/links.ts that matches no row, whatever its
\* form is. Next draws one such request per handler and every other request
\* from all callers, ids and forms. link.action.ts's deleteLink does not read
\* the session: one caller stands for every caller of it. The edit dialog of
\* LinkForm opens on a Link the dashboard lists, one of the signed-in user.
AnyCreateForm == [originalUrl |-> UrlA, shortCode |-> CodeAbc]
AnyUpdateForm == [f \in {"originalUrl"} |-> UrlA]
AddForms == [originalUrl : URLs, shortCode : FormCodes]

Next ==
    \/ \E c \in Users, d \in CreateForms : createLink(c, d, FALSE)
    \/ createLink(NoUser, AnyCreateForm, FALSE)
    \/ \E c \in Users : createLink(c, AnyCreateForm, TRUE)
    \/ \E c \in Users, i \in Ids :
          \E d \in (IF SelectByIdAndUser(store, i, c) = {} THEN {AnyUpdateForm}
                    ELSE UpdateForms) : updateLink(c, i, d, FALSE)
    \/ updateLink(NoUser, 1, AnyUpdateForm, FALSE)
    \/ \E c \in Users : updateLink(c, 1, AnyUpdateForm, TRUE)
    \/ \E c \in Users, i \in Ids : deleteLink(c, i, FALSE)
    \/ deleteLink(NoUser, 1, FALSE)
    \/ \E c \in Users : deleteLink(c, 1, TRUE)
    \/ \E d \in AddForms, u \in Users : addLink_select(d, u, FALSE)
    \/ \E u \in Users : addLink_select(AnyCreateForm, u, TRUE)
    \/ \E f \in BOOLEAN : addLink_insert(f)
    \/ \E i \in Ids, d \in UpdateForms, u \in Users : LinkAction_updateLink(i, d, u, FALSE)
    \/ \E u \in Users : LinkAction_updateLink(1, AnyUpdateForm, u, TRUE)
    \/ \E f \in BOOLEAN : LinkAction_updateLink_update(f)
    \/ \E i \in Ids, u \in Users : LinkAction_deleteLink(NoUser, i, u, FALSE)
    \/ \E u \in Users : LinkAction_deleteLink(NoUser, 1, u, TRUE)
    \/ \E c \in Users, d \in UpdateForms : LinkForm_onSubmit(c, NoInitialData, d, FALSE)
    \/ \E c \in Users, i \in Ids :
          /\ SelectByIdAndUser(store, i, c) # {}
          /\ \E d \in UpdateForms : LinkForm_onSubmit(c, i, d, FALSE)
    \/ \E k \in AllCodes, f \in BOOLEAN : GET(k, f)
    \/ \E k \in AllCodes, f \in BOOLEAN : GET_actions(k, f)

Spec == Init /\ [][Next]_vars

\* the same handlers with a running clock
NextClock == Next \/ Tick
SpecClock == Init /\ [][NextClock]_vars

\* ---- the listers over a table that the handlers above have filled
\* the columns a stored row got from its create: a table of up to MaxId
\* rows with distinct ids and short codes, created in the order of their ids
\* (rows created within one reading of the clock share their createdAt)
RowData == [shortCode : FormCodes, originalUrl : URLs, userId : Users, createdAt : 0..MaxTime]
Tables ==
    {{NewRow(i, f[i], f[i].userId, f[i].createdAt) : i \in DOMAIN f} :
        f \in {g \in UNION {[D -> RowData] : D \in SUBSET Ids} :
                 /\ \A i, j \in DOMAIN g : i # j => g[i].shortCode # g[j].shortCode
                 /\ \A i, j \in DOMAIN g : i < j => g[i].createdAt <= g[j].createdAt}}

InitList ==
    /\ store \in Tables
    /\ nextId = MaxId + 1
    /\ now = MaxTime
    /\ pending = Idle
    /\ resp = NoResp
    /\ infinite = Unmounted
    /\ BrowserInit

PaginatedParams == [cursor : Cursors, limit : Limits, search : Searches]
OffsetQueries == [page : Pages, limit : Limits, search : Searches]

\* As in Next, one request stands for those refused for want of a session
\* and one for those whose statement fails; getLinks and getData do not read
\* the session, and one caller stands for every caller of them.
AnyParams == [cursor |-> Undefined, limit |-> Undefined, search |-> << >>]
AnyQueries == [page |-> Undefined, limit |-> Undefined, search |-> << >>]

NextList ==
    \/ \E c \in Callers : getUserLinks(c, FALSE)
    \/ \E c \in Users : getUserLinks(c, TRUE)
    \/ \E c \in Users, q \in PaginatedParams : getUserLinksPaginated(c, q, FALSE)
    \/ getUserLinksPaginated(NoUser, AnyParams, FALSE)
    \/ \E c \in Users : getUserLinksPaginated(c, AnyParams, TRUE)
    \/ \E u \in Users, q \in OffsetQueries : getLinks(NoUser, u, q, FALSE)
    \/ \E u \in Users : getLinks(NoUser, u, AnyQueries, TRUE)
    \/ \E u \in Users, q \in OffsetQueries : getData(NoUser, u, q, FALSE)
    \/ \E u \in Users : getData(NoUser, u, AnyQueries, TRUE)

SpecList == InitList /\ [][NextList]_vars

\* the infinite list of the dashboard over such a table
NextInfinite ==
    \/ \E u \in Callers, n \in Limits, q \in Searches : useGetUserLinksInfinite(u, n, q)
    \/ \E f \in BOOLEAN : useGetUserLinksInfinite_queryFn(f)

SpecInfinite == InitList /\ [][NextInfinite]_vars

\* getUserLinksPaginated alone, called with every number a client can send
\* as cursor (0, each id, and one past the last id) and as limit (0 included)
PaginatedCursors == {Undefined, 0} \cup (1..(MaxId + 1))
PaginatedLimits == {Undefined, 0, 1}
PaginatedSearches == {<< >>, <<"B">>}
NextPaginated ==
    \/ \E c \in Users,
          q \in [cursor : PaginatedCursors, limit : PaginatedLimits,
                 search : PaginatedSearches] :
          getUserLinksPaginated(c, q, FALSE)
    \/ getUserLinksPaginated(NoUser, AnyParams, FALSE)
    \/ \E c \in Users : getUserLinksPaginated(c, AnyParams, TRUE)

SpecPaginated == InitList /\ [][NextPaginated]_vars

\* the offset listers statement by statement, while creates and deletes of
\* src/actions/links.ts commit
OffsetReads == [page : Pages, limit : {1}, search : {<< >>}]
StatementOrders == {"data", "count"}
NextOffset ==
    \/ \E c \in Users, d \in AddForms : createLink(c, d, FALSE)
    \/ \E c \in Users, i \in Ids : deleteLink(c, i, FALSE)
    \/ \E u \in Users, q \in OffsetReads, o \in StatementOrders :
          getLinks_first(u, q, o, FALSE)
    \/ \E u \in Users : getLinks_first(u, AnyQueries, "data", TRUE)
    \/ \E f \in BOOLEAN : getLinks_second(f)
    \/ \E u \in Users, q \in OffsetReads, o \in StatementOrders :
          getData_first(u, q, o, FALSE)
    \/ \E u \in Users : getData_first(u, AnyQueries, "data", TRUE)
    \/ \E f \in BOOLEAN : getData_second(f)

SpecOffset == Init /\ [][NextOffset]_vars

\* ---- the page-size cookie
\* values the cookie can hold, and numbers a caller can pass to setLimitCookie
CookieValues ==
    {toString(n) : n \in VALID_LIMITS \cup {0, 75, 2000}}
      \cup {<< >>, <<"a", "b", "c">>, <<"5", "0", "p", "x">>, <<" ", "5", "0">>,
            <<"0", "5", "0">>, <<"+", "5", "0">>, <<"-", "5", "0">>,
            <<"5", "0", ".", "5">>, <<"1", "e", "2">>, <<"1", "0", "0", " ">>}
LimitArguments == VALID_LIMITS \cup {0, 75, 500, 0 - 50}

InitCookie ==
    /\ store = {}
    /\ nextId = 1
    /\ now = 0
    /\ pending = Idle
    /\ resp = NoResp
    /\ infinite = Unmounted
    /\ cookie \in CookieValues \cup {NoCookie}
    /\ limitCall = NoCall
    /\ CacheInit
    /\ scroll = NoScroll

NextCookie ==
    \/ getLimitFromCookie_call
    \/ \E l \in LimitArguments : setLimitCookie(l)
    \/ \E v \in CookieValues \cup {NoCookie} : document_cookie(v)

SpecCookie == InitCookie /\ [][NextCookie]_vars

\* ---- the query cache and the mutation hooks of one browser
\* tables of up to MaxId rows that differ in ids, short codes and owners
CacheTables ==
    {t \in Tables : /\ \A l \in t : l.originalUrl = UrlA /\ l.createdAt = 0
                    /\ \A l \in t : l.id <= Cardinality(t)}

InitCache ==
    /\ store \in CacheTables
    /\ nextId = Cardinality(store) + 1
    /\ now = 0
    /\ pending = Idle
    /\ resp = NoResp
    /\ infinite = Unmounted
    /\ BrowserInit

\* the optimistic delete and the user-links query
NextOptimistic ==
    \/ useGetUserLinks
    \/ \E f \in BOOLEAN : useGetUserLinks_queryFn(f)
    \/ useGetUserLinks_settled
    \/ \E i \in Ids : useDeleteLinkOptimistic_onMutate(i)
    \/ \E i \in Ids, f \in BOOLEAN : useDeleteLinkOptimistic_mutationFn(i, f)
    \/ \E i \in Ids : useDeleteLinkOptimistic_onSettled(i)

\* every hook
NextCache ==
    \/ NextOptimistic
    \/ useGetUserLinksInfinite_refetched
    \/ \E k \in FormCodes : useCreateLink([originalUrl |-> UrlA, shortCode |-> k], FALSE)
    \/ useCreateLink(AnyCreateForm, TRUE)
    \/ \E i \in Ids : useUpdateLink(i, AnyUpdateForm, FALSE)
    \/ useUpdateLink(1, AnyUpdateForm, TRUE)
    \/ \E i \in Ids : useDeleteLink(i, FALSE)
    \/ useDeleteLink(1, TRUE)

SpecCache == InitCache /\ [][NextCache]_vars

\* A request sent to the server is answered, by a result or by an error, and
\* the answer reaches the callbacks of the hook that sent it.
SpecOptimistic ==
    /\ InitCache
    /\ [][NextOptimistic]_vars
    /\ \A i \in Ids :
          /\ WF_vars(\E f \in BOOLEAN : useDeleteLinkOptimistic_mutationFn(i, f))
          /\ WF_vars(useDeleteLinkOptimistic_onSettled(i))

\* the dashboard's list in scroll mode over such a table
NextScroll ==
    \/ \E u \in Users, n \in Limits, q \in PaginatedSearches : useGetUserLinksInfinite(u, n, q)
    \/ \E f \in BOOLEAN : InfiniteList_loaded(f)
    \/ \E b \in BOOLEAN : InfiniteList_observer(b)
    \/ \E f \in BOOLEAN : fetchNextPage_settled(f)

SpecScroll == InitList /\ [][NextScroll]_vars

\* ---- updates whose form carries more than the two form fields
\* The form of link.action.ts's updateLink is Partial<Omit<NewLink, "userId">>
\* (id and createdAt are among its keys), the form of updateData is
\* Record<string, any>, and a server action receives whatever object the
\* client sends; .set({...form, updatedAt}) writes every key of it.
LaterDate == MaxTime + 1
SpreadForms ==
    {<< >>}
      \cup [{"originalUrl"} -> URLs]
      \cup [{"id"} -> Ids]
      \cup [{"userId"} -> Users]
      \cup [{"createdAt"} -> {0, LaterDate}]

NextSpread ==
    \/ \E i \in Ids, d \in SpreadForms, u \in Users : LinkAction_updateLink(i, d, u, FALSE)
    \/ \E u \in Users : LinkAction_updateLink(1, AnyUpdateForm, u, TRUE)

SpecSpread == InitList /\ [][NextSpread]_vars

\* ================================================================ claims
\* error kinds of the outcomes the handlers produce
\* Conflict: the handler's own "Short code already exists", or the failure
\* result createLink gives for a rejected INSERT; an error of the database
\* driver passed on as it came is not a Conflict.
IsConflict(r) ==
    \/ r.how = "throw" /\ r.msg = "Short code already exists"
    \/ r.how = "return" /\ ~r.success /\ r.msg = "Failed to create link"
IsNotFound(r) ==
    /\ r.how \in {"return", "throw"}
    /\ r.msg \in {"Link not found", "Link not found or unauthorized"}
CreateOps == {"createLink", "addLink"}
UpdateOps == {"updateLink", "LinkAction_updateLink"}
DeleteOps == {"deleteLink", "LinkAction_deleteLink"}
RouteOps == {"GET", "GET_actions"}

\* the answer of either route variant to a request for code, given the rows s
RouteAnswers(s, code, fail) ==
    {Respond("GET", code, LinkAction_getLinkByShortCode(s, code, fail)),
     Respond("GET_actions", code, getLinkByShortCode(s, code, fail))}

\* C1: in every reachable state, whatever creates, updates and deletes ran
\* and however their statements interleaved, no two stored Links have the
\* same shortCode.
C1_ShortCodeUnique ==
    \A l1 \in store, l2 \in store : l1.shortCode = l2.shortCode => l1 = l2

\* C1 witness: a write that would have duplicated a short code reached the
\* table (after its handler's own check had passed) and was rejected, with
\* the first holder of the code still stored.
C1_Witness ==
    /\ resp.msg = PgUniqueViolation
    /\ store # {}

\* a create handler finishes in this step for short code c, with the
\* database answering every statement
CreateFinishes(c) ==
    \/ \E u \in Users, url \in URLs :
          createLink(u, [originalUrl |-> url, shortCode |-> c], FALSE)
    \/ \E u \in Users, url \in URLs :
          /\ addLink_select([originalUrl |-> url, shortCode |-> c], u, FALSE)
          /\ pending' = pending
    \/ /\ pending # Idle
       /\ pending.op = "addLink"
       /\ pending.form.shortCode = c
       /\ addLink_insert(FALSE)

\* C2 (as claimed): of two create calls with the same shortCode exactly one
\* succeeds and the other fails with Conflict. Stated on the call that
\* finishes second: a create that finishes while a Link with its shortCode is
\* stored inserts nothing and fails with the Conflict kind.
C2_SecondCreateConflicts ==
    [][resp'.op \in CreateOps => \A c \in FormCodes :
         (CreateFinishes(c) /\ SelectByShortCode(store, c) # {})
            => (store' = store /\ IsConflict(resp'))]_vars

\* C3 (as claimed): a stored Link is changed or removed only by an update or
\* delete request whose authenticated caller is the Link's owner; no request
\* of another caller changes or removes it.
C3_OnlyOwnerMutates ==
    [][\A l \in store : l \notin store' =>
         /\ resp'.op \in UpdateOps \cup DeleteOps
         /\ \A c \in Callers : c # l.userId =>
              /\ ~ \E i \in Ids, d \in UpdateForms, f \in BOOLEAN : updateLink(c, i, d, f)
              /\ ~ \E i \in Ids, f \in BOOLEAN : deleteLink(c, i, f)
              /\ ~ \E i \in Ids, u \in Users, f \in BOOLEAN :
                     LinkAction_deleteLink(c, i, u, f)]_vars

\* C4: once a create with a valid originalUrl and shortCode has stored a
\* Link, and for as long as that Link is stored unchanged, a resolve of its
\* shortCode whose lookup the store answers ends in a 301 redirect to exactly
\* that originalUrl; the route reads no caller identity.
C4_CreateThenResolve ==
    [][resp'.op \in RouteOps => \A code \in AllCodes :
         (GET(code, FALSE) \/ GET_actions(code, FALSE)) =>
            \A l \in store :
               (l.shortCode = code /\ IsValidUrl(l.originalUrl) /\ ShortCodeFormat(code))
                  => (resp'.status = 301 /\ resp'.location = l.originalUrl)]_vars

\* C4 witness: a Link is stored and the last request was a resolve that was
\* redirected to its originalUrl.
C4_Witness ==
    /\ resp.op \in RouteOps
    /\ resp.status = 301
    /\ \E l \in store : l.originalUrl = resp.location /\ IsValidUrl(l.originalUrl)

\* C5: a resolve of a (non-empty) short code that no stored Link has ends in
\* HTTP 404, an answer and not an exception, in every store state and also
\* when the lookup fails.
C5_ResolveUnknownIs404 ==
    [][resp'.op \in RouteOps => \A code \in AllCodes \ {CodeEmpty}, f \in BOOLEAN :
         ((GET(code, f) \/ GET_actions(code, f)) /\ SelectByShortCode(store, code) = {})
            => (resp'.how = "http" /\ resp'.status = 404)]_vars

\* C5 witness: Links are stored, and the last request was a resolve of a code
\* none of them has, answered 404.
C5_Witness ==
    /\ resp.op \in RouteOps
    /\ resp.status = 404
    /\ store # {}
    /\ \E code \in AllCodes \ {CodeEmpty} : SelectByShortCode(store, code) = {}

\* C6 (as claimed): whenever the store lookup of a resolve raises an error,
\* the redirect endpoint answers HTTP 500, for every requested code that
\* reaches the lookup.
C6_StoreFailureIs500 ==
    [][resp'.op \in RouteOps => \A code \in AllCodes \ {CodeEmpty} :
         (GET(code, TRUE) \/ GET_actions(code, TRUE)) => resp'.status = 500]_vars

\* C7 (as claimed): for every code that is empty or is not a string of
\* letters, digits, hyphen and underscore, the redirect endpoint answers HTTP
\* 400, whatever the store holds or does.
C7_MalformedIs400 ==
    [][resp'.op \in RouteOps => \A code \in AllCodes, f \in BOOLEAN :
         ((GET(code, f) \/ GET_actions(code, f)) /\ ~ShortCodeFormat(code))
            => resp'.status = 400]_vars

\* C8: a resolve changes neither the rows of the table nor the id sequence,
\* for every code, every store state and every outcome of the lookup; its
\* answer depends on nothing but the unchanged rows, so repeating it gives
\* the same answer.
C8_ResolveReadsOnly ==
    [][resp'.op \in RouteOps => \A code \in AllCodes, f \in BOOLEAN :
         (GET(code, f) \/ GET_actions(code, f)) =>
            /\ store' = store
            /\ nextId' = nextId
            /\ resp' \in RouteAnswers(store', code, f)]_vars

\* C8 witness: a resolve of a stored Link's code has been answered with the
\* redirect and the Link is still stored.
C8_Witness ==
    /\ resp.op \in RouteOps
    /\ resp.status = 301
    /\ store # {}

\* a delete of Link id owned by u succeeds in this step
DeleteSucceeds(id, u) ==
    /\ resp'.op \in DeleteOps
    /\ resp'.success
    /\ \/ \E f \in BOOLEAN : deleteLink(u, id, f)
       \/ \E c \in Callers, f \in BOOLEAN : LinkAction_deleteLink(c, id, u, f)

\* C9: right after a successful delete of a Link, a resolve of that Link's
\* short code is answered 404; and a short code that no Link has is stored
\* again only by a successful create or update, so the answer stays 404
\* until then.
C9_DeleteThenResolve ==
    [][/\ (resp'.op \in DeleteOps /\ resp'.success) => \A id \in Ids, u \in Users :
            DeleteSucceeds(id, u) =>
               \A l \in SelectByIdAndUser(store, id, u), f \in BOOLEAN :
                  \A a \in RouteAnswers(store', l.shortCode, f) : a.status = 404
       /\ \A code \in AllCodes :
            (SelectByShortCode(store, code) = {} /\ SelectByShortCode(store', code) # {})
               => (resp'.op \in CreateOps \cup UpdateOps /\ resp'.success)]_vars

\* C9 witness: the last request was a successful delete, another Link is
\* still stored, and some short code that was creatable is held by no Link.
C9_Witness ==
    /\ resp.op \in DeleteOps
    /\ resp.success
    /\ store # {}
    /\ \E code \in FormCodes : SelectByShortCode(store, code) = {}

\* an update of Link id on behalf of owner u with fields d finishes in this
\* step, with the database answering every statement
UpdateFinishes(id, u, d) ==
    \/ resp'.op = "updateLink" /\ updateLink(u, id, d, FALSE)
    \/ /\ resp'.op = "LinkAction_updateLink"
       /\ pending' = pending
       /\ LinkAction_updateLink(id, d, u, FALSE)
    \/ /\ resp'.op = "LinkAction_updateLink"
       /\ pending # Idle
       /\ pending.op = "updateLink"
       /\ pending.id = id /\ pending.userId = u /\ pending.form = d
       /\ LinkAction_updateLink_update(FALSE)

\* C10 (as claimed): an update of an id under which owner u has no Link fails
\* with NotFound and changes no row, whatever fields are supplied.
C10_UpdateUnownedNotFound ==
    [][resp'.op \in UpdateOps => \A id \in Ids, u \in Users, d \in UpdateForms :
         (UpdateFinishes(id, u, d) /\ SelectByIdAndUser(store, id, u) = {})
            => (IsNotFound(resp') /\ store' = store)]_vars

\* Conflict of an update: the handler's own "Short code already exists", or
\* the failure result actions/links.ts's updateLink gives for a rejected
\* UPDATE; an error of the database driver passed on as it came is not one.
IsUpdateConflict(r) ==
    \/ r.how = "throw" /\ r.msg = "Short code already exists"
    \/ r.how = "return" /\ ~r.success /\ r.msg = "Failed to update link"

\* C11 (as claimed): an update by the owner of Link id that sets shortCode to
\* a value a different Link holds, whoever owns that Link, fails with the
\* Conflict kind and changes no row.
C11_UpdateCollisionConflicts ==
    [][resp'.op \in UpdateOps => \A id \in Ids, u \in Users, d \in UpdateForms :
         (/\ UpdateFinishes(id, u, d)
          /\ SelectByIdAndUser(store, id, u) # {}
          /\ "shortCode" \in DOMAIN d
          /\ ShortCodeIdxViolated(store, id, d["shortCode"]))
            => (IsUpdateConflict(resp') /\ store' = store)]_vars

\* the update forms that carry originalUrl and nothing else
UrlOnlyForms == {d \in UpdateForms : DOMAIN d = {"originalUrl"}}

\* C12: a successful update whose fields are originalUrl alone leaves the
\* Link's shortCode, id, userId and createdAt as they were, gives it the new
\* originalUrl, and leaves every other Link as it was. (A step that leaves
\* the whole table as it was has left every Link as it was; the steps that
\* change the table are the ones examined.)
C12_UrlOnlyUpdateFrame ==
    [][(resp'.op \in UpdateOps /\ resp'.success /\ store' # store) =>
         \A id \in Ids, u \in Users, d \in UrlOnlyForms :
            (SelectByIdAndUser(store, id, u) # {} /\ UpdateFinishes(id, u, d)) =>
               /\ Cardinality(store') = Cardinality(store)
               /\ \A l \in store : l.id # id => l \in store'
               /\ \A l \in store : l.id = id =>
                     \E n \in store' :
                        /\ n.id = l.id
                        /\ n.shortCode = l.shortCode
                        /\ n.userId = l.userId
                        /\ n.createdAt = l.createdAt
                        /\ n.originalUrl = d["originalUrl"]]_vars

\* C12 witness: the last request was a successful update, two Links are
\* stored with their two short codes, and one of them carries an originalUrl
\* no create of a form-validated Link gave it.
C12_Witness ==
    /\ resp.op \in UpdateOps
    /\ resp.success
    /\ Cardinality(store) = 2
    /\ {l.shortCode : l \in store} = FormCodes
    /\ \E l \in store : l.originalUrl = NotAUrl

\* C13: with the database answering, a delete of id on behalf of owner u
\* fails with NotFound and changes no row when u owns no Link with that id;
\* otherwise it succeeds and removes that Link and no other.
C13_DeleteContract ==
    [][resp'.op \in DeleteOps => \A id \in Ids, u \in Users :
         (\/ resp'.op = "deleteLink" /\ deleteLink(u, id, FALSE)
          \/ resp'.op = "LinkAction_deleteLink" /\ LinkAction_deleteLink(u, id, u, FALSE)) =>
            IF SelectByIdAndUser(store, id, u) = {}
            THEN IsNotFound(resp') /\ store' = store
            ELSE /\ resp'.success
                 /\ Cardinality(store') = Cardinality(store) - 1
                 /\ \A l \in store : l.id # id => l \in store'
                 /\ \A l \in store' : l.id # id]_vars

\* C13 witness: two Links of one owner were stored, the last request was a
\* successful delete, and the owner's other Link is still there.
C13_Witness ==
    /\ resp.op \in DeleteOps
    /\ resp.success
    /\ nextId > 2
    /\ Cardinality(store) = nextId - 2

\* a create on behalf of user u with the fields d finishes in this step, with
\* the database answering every statement
CreateFinishesWith(u, d) ==
    \/ resp'.op = "createLink" /\ createLink(u, d, FALSE)
    \/ /\ resp'.op = "addLink"
       /\ pending' = pending
       /\ Truthy(d.shortCode)
       /\ addLink_select(d, u, FALSE)
    \/ /\ resp'.op = "addLink"
       /\ pending # Idle
       /\ pending.op = "addLink"
       /\ pending.userId = u /\ pending.form = d
       /\ addLink_insert(FALSE)

\* InvalidInput: the only refusal of fields the create handlers have
IsInvalidInput(r) ==
    /\ r.how \in {"return", "throw"}
    /\ ~r.success
    /\ r.msg = "Missing required fields"

\* C15 (as claimed): a create whose originalUrl is not a valid absolute URL,
\* or whose shortCode has a character outside letters, digits, hyphen and
\* underscore or a length outside 3..50, fails with InvalidInput and inserts
\* nothing.
C15_CreateRejectsInvalid ==
    [][resp'.op \in CreateOps => \A u \in Users, d \in CreateForms :
         (CreateFinishesWith(u, d) /\ ~createLinkSchema(d))
            => (IsInvalidInput(resp') /\ store' = store)]_vars

\* C16 (as claimed): every stored Link has an originalUrl that parses as a
\* URL and a shortCode of 3 to 50 letters, digits, hyphens and underscores.
C16_StoredLinksValid ==
    \A l \in store :
       createLinkSchema([originalUrl |-> l.originalUrl, shortCode |-> l.shortCode])

\* Unauthenticated: the refusal of a request without a session
IsUnauthenticated(r) ==
    /\ r.how \in {"return", "throw"}
    /\ ~r.success
    /\ r.msg = "Unauthorized"

\* C17 (as claimed): a create, update or delete request that arrives without
\* a session fails with Unauthenticated and changes no row, whatever it asks
\* for.
C17_NoIdentityRefusedFirst ==
    [][resp'.op \in CreateOps \cup UpdateOps \cup DeleteOps =>
         ((\/ \E d \in CreateForms, f \in BOOLEAN : createLink(NoUser, d, f)
           \/ \E i \in Ids, d \in UpdateForms, f \in BOOLEAN : updateLink(NoUser, i, d, f)
           \/ \E i \in Ids, f \in BOOLEAN : deleteLink(NoUser, i, f)
           \/ \E i \in Ids, u \in Users, f \in BOOLEAN :
                 LinkAction_deleteLink(NoUser, i, u, f))
            => (IsUnauthenticated(resp') /\ store' = store))]_vars

\* C18 (as claimed): every create, update and delete call ends by returning
\* a result; none ends by throwing.
C18_MutationsNeverThrow ==
    resp.op \in CreateOps \cup UpdateOps \cup DeleteOps => resp.how = "return"

ListOps == {"getUserLinks", "getUserLinksPaginated", "getLinks", "getData"}

\* C14 (as claimed): a lister call that arrives with the session of owner a
\* returns only Links whose userId is a, for every table, search filter and
\* pagination argument.
C14_ListerOwnerIsolation ==
    [][resp'.op \in ListOps => \A a \in Users :
         (\/ \E f \in BOOLEAN : getUserLinks(a, f)
          \/ \E q \in PaginatedParams, f \in BOOLEAN : getUserLinksPaginated(a, q, f)
          \/ \E u \in Users, q \in OffsetQueries, f \in BOOLEAN : getLinks(a, u, q, f)
          \/ \E u \in Users, q \in OffsetQueries, f \in BOOLEAN : getData(a, u, q, f))
            => \A i \in 1..Len(resp'.items) : resp'.items[i].userId = a]_vars

\* sub occurs in str as a case-insensitive substring
Contains(str, sub) ==
    \E i \in 0..(Len(str) - Len(sub)) :
       SubSeq(LowerAll(str), i + 1, i + Len(sub)) = LowerAll(sub)

\* the answer holds the whole result of the query: first page, nothing cut off
WholeResult(r) ==
    /\ ~r.more
    /\ IF r.op = "getUserLinksPaginated" THEN r.params.cursor = Undefined
       ELSE OrElse(r.params.page, 0) = 0

\* C19 (as claimed): a filtered lister call succeeds and returns exactly the
\* Links of the listed owner whose originalUrl or shortCode contains the
\* search string as a case-insensitive substring (none, when none does).
C19_SearchIsSubstring ==
    (resp.op \in ListOps \ {"getUserLinks"} /\ resp.how = "return"
        /\ resp.msg # "Failed to fetch links" /\ WholeResult(resp)) =>
       /\ resp.success
       /\ {resp.items[i] : i \in 1..Len(resp.items)} =
             {l \in store : /\ l.userId = resp.userId
                            /\ \/ Contains(Chars(l.originalUrl), resp.params.search)
                               \/ Contains(l.shortCode, resp.params.search)}

\* C20 (as claimed): once the infinite query has fetched page after page up
\* to a page without nextCursor, with the table untouched meanwhile, its
\* pages hold every Link of the user that matches the search exactly once, in
\* descending createdAt.
C20_InfiniteWalkComplete ==
    (infinite.status = "success" /\ ~HasNextPage(infinite)) =>
       LET items == FlatItems(infinite.pages)
           matching == {l \in store :
                          PaginatedConditions(l, infinite.user,
                              [cursor |-> Undefined, limit |-> infinite.limit,
                               search |-> infinite.search])} IN
       /\ {items[i] : i \in 1..Len(items)} = matching
       /\ Len(items) = Cardinality(matching)
       /\ \A i, j \in 1..Len(items) : i < j => items[i].createdAt >= items[j].createdAt

\* C21 (as claimed): no successful update, whatever its form carries, changes
\* a Link's id or its userId.
C21_UpdateKeepsIdAndOwner ==
    [][(resp'.op \in UpdateOps /\ resp'.success) =>
         \A l \in store : \E n \in store' : n.id = l.id /\ n.userId = l.userId]_vars

\* C29 (as claimed): in every reachable state each Link's updatedAt is not
\* earlier than its createdAt.
C29_UpdatedNotBeforeCreated ==
    \A l \in store : l.updatedAt >= l.createdAt

\* the answer in resp is a page returned by getUserLinksPaginated
IsPage == resp.op = "getUserLinksPaginated" /\ resp.success

\* C27 (as claimed): every successful result of getUserLinksPaginated has at
\* most limit items, hasNextPage exactly when nextCursor is defined, and a
\* defined nextCursor is the id of the last item and smaller than the cursor
\* that was passed in.
C27_PageShapeAsClaimed ==
    IsPage =>
        /\ Len(resp.items) <= OrElse(resp.params.limit, 10)
        /\ resp.more <=> resp.nextCursor # Undefined
        /\ resp.nextCursor # Undefined =>
              /\ resp.nextCursor = resp.items[Len(resp.items)].id
              /\ resp.params.cursor # Undefined => resp.nextCursor < resp.params.cursor

\* C27 (amended): as above, with nextCursor smaller than the cursor passed in
\* whenever that cursor is not 0; a cursor of 0 is read as no cursor.
C27_PageShape ==
    IsPage =>
        /\ Len(resp.items) <= OrElse(resp.params.limit, 10)
        /\ resp.more <=> resp.nextCursor # Undefined
        /\ resp.nextCursor # Undefined =>
              /\ resp.nextCursor = resp.items[Len(resp.items)].id
              /\ (resp.params.cursor # Undefined /\ resp.params.cursor # 0)
                    => resp.nextCursor < resp.params.cursor

\* a page cut at the limit, asked for with a cursor, that has a next page
C27_Witness ==
    /\ IsPage
    /\ resp.params.cursor \in 1..(MaxId + 1)
    /\ resp.more
    /\ Len(resp.items) = resp.params.limit

\* C26 (as claimed): the hasMore of an offset page is true exactly when
\* offset plus the number of returned rows is less than the number of rows
\* that matched in the table the page was read from, whatever commits between
\* the data query and the count query.
C26_HasMoreOfThePageRead ==
    [][(pending.op \in {"getLinks", "getData"} /\ resp'.op = pending.op /\ resp'.success) =>
         LET read == IF pending.first = "data"
                     THEN pending.snapshot
                     ELSE Cardinality(OffsetMatching(pending.op, store, pending.userId,
                                                     pending.queries.search)) IN
         resp'.more <=> OffsetOf(pending.op, pending.queries) + Len(resp'.items) < read]_vars

\* the cookie holds the decimal spelling of a valid limit
HoldsValidLimit == \E l \in VALID_LIMITS : cookie = toString(l)

\* what the claim says of a setLimitCookie step: a valid limit is what
\* getLimitFromCookie returns next, any other leaves the cookie as it was
SetLimitContract ==
    limitCall'.op = "setLimitCookie" =>
        IF limitCall'.limit \in VALID_LIMITS
        THEN getLimitFromCookie(cookie') = limitCall'.limit
        ELSE cookie' = cookie

OptimisticFails(id) ==
    mutations[id].phase = "error" /\ mutations'[id].phase = "none"
\* the optimistic delete of id succeeds and its callbacks run
OptimisticSucceeds(id) ==
    mutations[id].phase = "success" /\ mutations'[id].phase = "none"

\* C22 (as claimed): when an optimistic delete fails, the cached user-links
\* list is put back to the value it had when the mutation started, undefined
\* included.
C22_FailedDeleteRestoresCache ==
    [][\A i \in Ids : OptimisticFails(i) => query'.data = mutations[i].previousLinks]_vars

\* a mutation made through one of the four hooks has succeeded and its
\* callbacks have run
HookSucceeds ==
    \/ /\ mutations' = mutations
       /\ resp'.op \in {"createLink", "updateLink", "deleteLink"}
       /\ resp'.success
       /\ \/ \E k \in FormCodes : useCreateLink([originalUrl |-> UrlA, shortCode |-> k], FALSE)
          \/ \E i \in Ids : useUpdateLink(i, AnyUpdateForm, FALSE)
          \/ \E i \in Ids : useDeleteLink(i, FALSE)
    \/ \E i \in Ids : OptimisticSucceeds(i)

\* C23 (as claimed): after every successful mutation made through a hook the
\* cached user-links query and the list queries are invalidated.
C23_SuccessInvalidatesEveryList ==
    [][HookSucceeds =>
         /\ query'.lists
         /\ QueryExists(query') => query'.invalidated]_vars

\* the ids of the cached user-links list
CachedIds(q) == {l.id : l \in q.data.rows}
\* the deletion of the Link has been confirmed: the optimistic delete of it
\* has settled and the row is gone
DeletionConfirmed(id) ==
    /\ mutations[id].phase = "none"
    /\ \A l \in store : l.id # id

\* C24 (as claimed): a Link whose deletion the server has confirmed does not
\* come back into the cached user-links list, whatever another optimistic
\* delete in flight does.
C24_ConfirmedDeleteStaysOut ==
    [][\A i \in Ids :
         (DeletionConfirmed(i) /\ i \notin CachedIds(query)) => i \notin CachedIds(query')]_vars

\* nothing is in flight and the query holds fetched data that is not
\* invalidated
Settled ==
    /\ \A i \in Ids : mutations[i].phase = "none"
    /\ query.fetch = NoFetch
    /\ query.data.defined
    /\ ~query.invalidated

\* C25: every optimistic delete is followed by an invalidation of the
\* user-links query, and once nothing is in flight and the refetch has
\* completed, the cached list is the signed-in user's Links in the store.
C25_DeleteSettlesAndCacheConverges ==
    /\ \A i \in Ids :
          (mutations[i].phase = "sent") ~> (mutations[i].phase = "none" /\ query.invalidated)
    /\ [](Settled => query.data.rows = {l \in store : l.userId = SignedIn})

\* an optimistic delete has removed a Link on the server and the observed
\* query has settled again
C25_Witness ==
    /\ Settled
    /\ query.active
    /\ resp.op = "deleteLink"
    /\ resp.success

====
